---- MODULE Spec2Model ----
(***************************************************************************)
(* JSON-RPC 2.0 over HTTP: the server dispatcher (src/src/server.rs), the  *)
(* envelope types and their serde encodings (src/src/types.rs), the client *)
(* adapter (src/src/client.rs) and the example handler                     *)
(* (src/examples/server/src/main.rs).                                      *)
(*                                                                         *)
(* A JSON text is modelled by its value tree (serde_json::Value): a record *)
(* tagged by t.  An object is a function from the keys that are PRESENT to *)
(* values, so "key absent" and "key: null" are different values.           *)
(***************************************************************************)
EXTENDS Integers, Sequences, FiniteSets, TLC

VARIABLES handler, conn, client

vars == <<handler, conn, client>>

(***************************************************************************)
(* Bounds of the model.                                                    *)
(***************************************************************************)
MaxBatch == 2

(***************************************************************************)
(* serde_json::Value                                                       *)
(***************************************************************************)
JNull == [t |-> "null"]
JBool(b) == [t |-> "bool", b |-> b]
JNum(n) == [t |-> "num", n |-> n]
JStr(s) == [t |-> "str", s |-> s]
JArr(a) == [t |-> "arr", a |-> a]
JObj(o) == [t |-> "obj", o |-> o]

\* Bytes that serde_json::from_slice rejects.
Malformed == [t |-> "malformed"]

\* Option<T>
None == [some |-> FALSE]
Some(x) == [some |-> TRUE, v |-> x]

\* Result<T, E> of a decoding step
DecOk(x) == [ok |-> TRUE, val |-> x]
DecErr == [ok |-> FALSE]

(***************************************************************************)
(* types.rs: RPCError and its constructors                                 *)
(***************************************************************************)
CodeUnknownMethod == -32601
CodeParseError == -32700
CodeInvalidParams == -32602
CodeInternalError == -32603

RPCError(code, message, data) == [code |-> code, message |-> message, data |-> data]

\* unknown_method built with the code and message of invalid_params.
unknown_method_as_invalid_params == RPCError(CodeInvalidParams, "Invalid params", None)

unknown_method == RPCError(CodeUnknownMethod, "Method not found", None)
parse_error == RPCError(CodeParseError, "Parse error", None)
invalid_params == RPCError(CodeInvalidParams, "Invalid params", None)
internal_error(data) == RPCError(CodeInternalError, "Internal error", Some(data))

\* Result<Option<H::Response>, RPCError>, the return type of Handle::handle
Ok(v) == [ok |-> TRUE, val |-> v]
Err(e) == [ok |-> FALSE, err |-> e]

(***************************************************************************)
(* types.rs: RPCRequest / RPCResponse                                      *)
(***************************************************************************)
RPCRequest(jsonrpc, method, params, id) ==
    [jsonrpc |-> jsonrpc, method |-> method, params |-> params, id |-> id]

\* RPCResponse::result(id, t)
RPCResponse_result(id, t) ==
    [jsonrpc |-> "2.0", result |-> t, error |-> None, id |-> id]

\* RPCResponse::error that drops the id (an error Response with id null).
RPCResponse_error_null_id(id, e) ==
    [jsonrpc |-> "2.0", result |-> None, error |-> Some(e), id |-> JNull]

\* RPCResponse::error(id, e)
RPCResponse_error(id, e) ==
    [jsonrpc |-> "2.0", result |-> None, error |-> Some(e), id |-> id]

(***************************************************************************)
(* serde: decoding a Value into the envelope types                         *)
(***************************************************************************)
\* The four fields of a derived struct as serde finds them in a Value: by
\* key in an object (visit_map; unknown keys are ignored, a missing key is
\* None), by position in an array of exactly that many elements
\* (visit_seq).  Any other Value is not a struct.
StructFields(v, names) ==
    IF v.t = "obj"
    THEN DecOk([i \in 1..Len(names) |->
                   IF names[i] \in DOMAIN v.o THEN Some(v.o[names[i]]) ELSE None])
    ELSE IF v.t = "arr" /\ Len(v.a) = Len(names)
    THEN DecOk([i \in 1..Len(names) |-> Some(v.a[i])])
    ELSE DecErr

\* A field of type String: present and a JSON string.
DeString(f) == IF f.some /\ f.v.t = "str" THEN DecOk(f.v.s) ELSE DecErr

\* A field of type serde_json::Value: any present value; a missing field is
\* an error (Value is not an Option).
DeValue(f) == IF f.some THEN DecOk(f.v) ELSE DecErr

\* An unsigned integer (u32 / u64).  The model's numerals stay far below
\* 2^32, so only the sign decides.
DeUnsigned(x) == IF x.t = "num" /\ x.n >= 0 THEN DecOk(x.n) ELSE DecErr

DeBool(x) == IF x.t = "bool" THEN DecOk(x.b) ELSE DecErr

\* (u32, bool)
DeParam1(x) ==
    IF x.t = "arr" /\ Len(x.a) = 2 /\ DeUnsigned(x.a[1]).ok /\ DeBool(x.a[2]).ok
    THEN DecOk(<<DeUnsigned(x.a[1]).val, DeBool(x.a[2]).val>>)
    ELSE DecErr

\* (u64,)
DeParam2(x) ==
    IF x.t = "arr" /\ Len(x.a) = 1 /\ DeUnsigned(x.a[1]).ok
    THEN DecOk(<<DeUnsigned(x.a[1]).val>>)
    ELSE DecErr

\* ExampleRequest without its catch-all variant Other.
DeExampleRequest_no_other(x) ==
    IF DeParam1(x).ok THEN DecOk([variant |-> "Param1", p1 |-> DeParam1(x).val])
    ELSE IF DeParam2(x).ok THEN DecOk([variant |-> "Param2", p2 |-> DeParam2(x).val])
    ELSE DecErr

\* #[serde(untagged)] enum ExampleRequest: the first variant that decodes.
DeExampleRequest(x) ==
    IF DeParam1(x).ok THEN DecOk([variant |-> "Param1", p1 |-> DeParam1(x).val])
    ELSE IF DeParam2(x).ok THEN DecOk([variant |-> "Param2", p2 |-> DeParam2(x).val])
    ELSE DecOk([variant |-> "Other", other |-> x])

\* A handler whose Request type is the plain tuple (u64,): no catch-all.
DeTupleRequest(x) ==
    IF DeParam2(x).ok THEN DecOk([variant |-> "Tuple", p2 |-> DeParam2(x).val])
    ELSE DecErr

\* H::Request, by handler.
DeHandlerRequest(h, x) ==
    IF h = "ExampleHandle" THEN DeExampleRequest(x) ELSE DeTupleRequest(x)

\* A field of type Option<H::Request>: missing or null is None.
DeOptionRequest(h, f) ==
    IF ~f.some \/ f.v.t = "null" THEN DecOk(None)
    ELSE IF DeHandlerRequest(h, f.v).ok THEN DecOk(Some(DeHandlerRequest(h, f.v).val))
    ELSE DecErr

RequestFieldNames == <<"jsonrpc", "method", "params", "id">>

\* serde_json::from_value::<RPCRequest<Option<H::Request>>>
DeRPCRequest(h, v) ==
    LET fs == StructFields(v, RequestFieldNames) IN
    IF ~fs.ok THEN DecErr
    ELSE LET j == DeString(fs.val[1])
             m == DeString(fs.val[2])
             p == DeOptionRequest(h, fs.val[3])
             i == DeValue(fs.val[4])
         IN IF j.ok /\ m.ok /\ p.ok /\ i.ok
            THEN DecOk(RPCRequest(j.val, m.val, p.val, i.val))
            ELSE DecErr

\* A decoder that drops the elements that do not decode and keeps the rest.
DeBatch_skip_bad(h, v) ==
    IF v.t # "arr" THEN DecErr
    ELSE LET good == SelectSeq(v.a, LAMBDA x : DeRPCRequest(h, x).ok)
         IN DecOk([k \in 1..Len(good) |-> DeRPCRequest(h, good[k]).val])

\* serde_json::from_value::<Vec<RPCRequest<Option<H::Request>>>>: every
\* element must decode.
DeBatch(h, v) ==
    IF v.t = "arr" /\ \A k \in 1..Len(v.a) : DeRPCRequest(h, v.a[k]).ok
    THEN DecOk([k \in 1..Len(v.a) |-> DeRPCRequest(h, v.a[k]).val])
    ELSE DecErr

(***************************************************************************)
(* serde: encoding the envelope types into a Value                         *)
(***************************************************************************)
\* Option<T> field without skip_serializing_if: None is written as null.
SerOption(o) == IF o.some THEN o.v ELSE JNull

\* RPCError: data carries skip_serializing_if = "Option::is_none".
SerRPCError(e) ==
    IF e.data.some
    THEN JObj([code |-> JNum(e.code), message |-> JStr(e.message), data |-> JStr(e.data.v)])
    ELSE JObj([code |-> JNum(e.code), message |-> JStr(e.message)])

\* derived Serialize of RPCResponseError
SerRPCResponseError(r) ==
    JObj([jsonrpc |-> JStr(r.jsonrpc), error |-> SerRPCError(r.error), id |-> r.id])

\* derived Serialize of RPCResponseResult
SerRPCResponseResult(r) ==
    JObj([jsonrpc |-> JStr(r.jsonrpc), result |-> SerOption(r.result), id |-> r.id])

\* derived Serialize of RPCResponse: all four fields, always.
SerRPCResponse(r) ==
    JObj([jsonrpc |-> JStr(r.jsonrpc),
          result |-> SerOption(r.result),
          error |-> IF r.error.some THEN SerRPCError(r.error.v) ELSE JNull,
          id |-> r.id])

\* into_value that serializes the RPCResponse itself instead of going
\* through RPCResponseError / RPCResponseResult.
into_value_derived(r) == SerRPCResponse(r)

\* RPCResponse::into_value
into_value(r) ==
    IF r.error.some
    THEN SerRPCResponseError([id |-> r.id, jsonrpc |-> r.jsonrpc, error |-> r.error.v])
    ELSE SerRPCResponseResult([id |-> r.id, jsonrpc |-> r.jsonrpc, result |-> r.result])

\* serde_json::to_value(Vec<RPCResponse<T>>)
SerBatch(rs) == JArr([k \in 1..Len(rs) |-> SerRPCResponse(rs[k])])

(***************************************************************************)
(* examples/server: ExampleHandle                                          *)
(***************************************************************************)
\* define_into!(into_param1, (u32, bool), Param1)
into_param1(req) ==
    IF req.variant = "Param1" THEN Ok(req.p1) ELSE Err(invalid_params)

\* define_into!(into_param2, (u64,), Param2)
into_param2(req) ==
    IF req.variant = "Param2" THEN Ok(req.p2) ELSE Err(invalid_params)

\* ExampleHandle::handle
ExampleHandle_handle(method, req) ==
    IF method = "example_fn1"
    THEN IF ~req.some THEN Err(invalid_params)
         ELSE IF ~into_param1(req.v).ok THEN Err(into_param1(req.v).err)
         ELSE LET param == into_param1(req.v).val
              IN Ok(Some(JArr(<<JNum(param[1]), JBool(param[2])>>)))
    ELSE IF method = "example_fn2"
    THEN IF ~req.some THEN Err(invalid_params)
         ELSE IF ~into_param2(req.v).ok THEN Err(into_param2(req.v).err)
         ELSE LET param == into_param2(req.v).val
              IN Ok(Some(JArr(<<JNum(param[1])>>)))
    ELSE Err(unknown_method)

(***************************************************************************)
(* server.rs: Handle, _handle, _batch_handle, HandleHttp::call             *)
(***************************************************************************)
\* The handlers the server may be constructed with (serve(addr, handle)):
\* the example's ExampleHandle, whose Request type has a catch-all variant,
\* and AnyHandle, an arbitrary implementation of the trait whose Request
\* type is the tuple (u64,) and whose handle may return anything.
Handlers == {"ExampleHandle", "AnyHandle"}

\* What an arbitrary Handle::handle may return.
AnyResults ==
    {Ok(None), Ok(Some(JStr("ok"))), Err(internal_error("boom"))}

\* handle.handle(method, params).await: the values the call may return.
handle(h, method, params) ==
    IF h = "ExampleHandle"
    THEN {ExampleHandle_handle(method, params)}
    ELSE AnyResults

\* The outcome of one HTTP exchange as hyper sees the service future.
StatusOK == 200
HttpOk(body) ==
    [kind |-> "response", status |-> StatusOK,
     content_type |-> "application/json", body |-> body]
HttpErr(why) == [kind |-> "error", why |-> why]
HttpPending == [kind |-> "pending"]

\* Value::is_object / Value::is_array
is_object(v) == v.t = "obj"
is_array(v) == v.t = "arr"

\* The final else branch answering with a parse_error Response instead of
\* failing.
unsupport_type_as_response(body) ==
    HttpOk(into_value(RPCResponse_error(JNull, parse_error)))

\* call: the final else branch, anyhow!("Unsupport type")
unsupport_type(body) == HttpErr("Unsupport type")

\* _handle, after the handler returned ret for the decoded request req:
\* match ... { Ok(v) => result(req.id, v), Err(e) => error(req.id, e) }
_handle_response(req, ret) ==
    IF ret.ok THEN RPCResponse_result(req.id, ret.val)
    ELSE RPCResponse_error(req.id, ret.err)

\* The single branch propagating a handler error with `?` instead of
\* wrapping it.
_handle_finish_propagate(req, ret) ==
    IF ret.ok THEN HttpOk(into_value(_handle_response(req, ret)))
    ELSE HttpErr("handler")

\* call, single branch after _handle returned: r.into_value(), to_string,
\* Builder ... body(body)
_handle_finish(req, ret) == HttpOk(into_value(_handle_response(req, ret)))

\* batch_handle: map_or_else(|e| error(id, e), |v| result(id, v))
batch_handle_response(reqest, ret) ==
    IF ret.ok THEN RPCResponse_result(reqest.id, ret.val)
    ELSE RPCResponse_error(reqest.id, ret.err)

\* A loop that pushes nothing for a failed call and so calls the handler
\* again for the same reqest.
push_unless_error(response, resp) ==
    IF resp.error.some THEN response ELSE Append(response, resp)

\* response.insert(0, resp) in place of push.
push_front(response, resp) == <<resp>> \o response

\* batch_handle: response.push(resp)
push(response, resp) == Append(response, resp)

\* The loop leaving at the first error Response.
has_next_until_error(reqests, response) ==
    /\ Len(response) < Len(reqests)
    /\ (Len(response) > 0 => ~response[Len(response)].error.some)

\* batch_handle: the for loop has another reqest to take
has_next(reqests, response) == Len(response) < Len(reqests)

\* An empty vector of Responses refused instead of being written.
_batch_handle_finish_nonempty(r) ==
    IF r = << >> THEN HttpErr("empty batch") ELSE HttpOk(SerBatch(r))

\* _batch_handle / call, after batch_handle returned r: to_value(r),
\* to_string, Builder ... body(body)
_batch_handle_finish(r) == HttpOk(SerBatch(r))

\* Every remaining reqest started at once (a join_all fan-out).
awaiting_all(reqests, response) == (Len(response) + 1)..Len(reqests)

\* batch_handle: the reqests whose handle future is outstanding, the loop
\* body awaiting self.handle(..) before it takes the next reqest
awaiting(reqests, response) ==
    IF has_next(reqests, response) THEN {Len(response) + 1} ELSE {}

\* One connection's service future.  calls is the history of completed
\* handler invocations (it is not program state); cur holds the positions in
\* reqs of the invocations that are outstanding.
IdleConn ==
    [pc |-> "idle", body |-> Malformed, reqs |-> << >>, response |-> << >>,
     calls |-> << >>, cur |-> {}, out |-> HttpPending]

\* call: a request with body bytes b reaches the service; the future
\* suspends in to_bytes(req.into_body()).await
call_begin(c, bodies) ==
    /\ conn[c].pc = "idle"
    /\ \E b \in bodies :
          conn' = [conn EXCEPT ![c] = [IdleConn EXCEPT !.pc = "body", !.body = b]]
    /\ UNCHANGED <<handler, client>>

Fail(c, out) ==
    conn' = [conn EXCEPT ![c].pc = "done", ![c].out = out]

\* call: serde_json::from_slice::<Value> fails
call_parse_fail(c) ==
    /\ conn[c].pc = "body"
    /\ conn[c].body = Malformed
    /\ Fail(c, HttpErr("from_slice"))
    /\ UNCHANGED <<handler, client>>

\* A lock around the handler: a connection enters it only while no other
\* connection has a handler call outstanding.
handler_access_locked(c) == \A d \in DOMAIN conn \ {c} : conn[d].cur = {}

\* call: self.handle.clone() hands the future its own Arc<H>; the handler is
\* borrowed as &self, nothing is locked or waited for
handler_access(c) == TRUE

\* call: the body is an object; _handle decodes it and invokes the handler
call_object(c) ==
    /\ conn[c].pc = "body"
    /\ conn[c].body # Malformed
    /\ is_object(conn[c].body)
    /\ handler_access(c)
    /\ LET d == DeRPCRequest(handler, conn[c].body) IN
       IF ~d.ok
       THEN Fail(c, HttpErr("from_value"))
       ELSE conn' = [conn EXCEPT ![c].pc = "single_await", ![c].reqs = <<d.val>>,
                                 ![c].cur = {1}]
    /\ UNCHANGED <<handler, client>>

\* _handle: the handler returns; the Response is the HTTP response
_handle_return(c) ==
    /\ conn[c].pc = "single_await"
    /\ LET req == conn[c].reqs[1] IN
       \E ret \in handle(handler, req.method, req.params) :
          conn' = [conn EXCEPT
                     ![c].pc = "done",
                     ![c].cur = {},
                     ![c].calls = Append(@, [method |-> req.method,
                                             params |-> req.params, ret |-> ret]),
                     ![c].response = <<_handle_response(req, ret)>>,
                     ![c].out = _handle_finish(req, ret)]
    /\ UNCHANGED <<handler, client>>

\* call: the body is an array; _batch_handle decodes every item, then
\* batch_handle starts on the first one (or returns at once when empty)
call_array(c) ==
    /\ conn[c].pc = "body"
    /\ conn[c].body # Malformed
    /\ ~is_object(conn[c].body)
    /\ is_array(conn[c].body)
    /\ handler_access(c)
    /\ LET d == DeBatch(handler, conn[c].body) IN
       IF ~d.ok
       THEN Fail(c, HttpErr("from_value"))
       ELSE IF has_next(d.val, << >>)
       THEN conn' = [conn EXCEPT ![c].pc = "batch_await", ![c].reqs = d.val,
                                 ![c].cur = awaiting(d.val, << >>)]
       ELSE conn' = [conn EXCEPT ![c].pc = "done", ![c].reqs = d.val,
                                 ![c].out = _batch_handle_finish(<< >>)]
    /\ UNCHANGED <<handler, client>>

\* batch_handle: the handler returns for the current reqest; its Response is
\* pushed and the loop goes on to the next reqest or returns the vector
batch_handle_return(c) ==
    /\ conn[c].pc = "batch_await"
    /\ LET reqest == conn[c].reqs[Len(conn[c].response) + 1] IN
       \E ret \in handle(handler, reqest.method, reqest.params) :
          LET response == push(conn[c].response, batch_handle_response(reqest, ret))
              log == Append(conn[c].calls, [method |-> reqest.method,
                                            params |-> reqest.params, ret |-> ret])
          IN IF has_next(conn[c].reqs, response)
             THEN conn' = [conn EXCEPT ![c].response = response, ![c].calls = log,
                                       ![c].cur = awaiting(conn[c].reqs, response)]
             ELSE conn' = [conn EXCEPT ![c].pc = "done", ![c].response = response,
                                       ![c].calls = log,
                                       ![c].cur = awaiting(conn[c].reqs, response),
                                       ![c].out = _batch_handle_finish(response)]
    /\ UNCHANGED <<handler, client>>

\* call: the body is neither an object nor an array
call_other(c) ==
    /\ conn[c].pc = "body"
    /\ conn[c].body # Malformed
    /\ ~is_object(conn[c].body)
    /\ ~is_array(conn[c].body)
    /\ Fail(c, unsupport_type(conn[c].body))
    /\ UNCHANGED <<handler, client>>

\* The exchange is over; the service takes the next request.
next_request(c) ==
    /\ conn[c].pc = "done"
    /\ conn' = [conn EXCEPT ![c] = IdleConn]
    /\ UNCHANGED <<handler, client>>

(***************************************************************************)
(* Request bodies                                                          *)
(***************************************************************************)
Methods == {"example_fn1", "example_fn2", "nope"}
ParamValues ==
    {JNull, JArr(<<JNum(10), JBool(TRUE)>>), JArr(<<JNum(100)>>), JStr("x")}
IdValues == {JNull, JNum(1), JStr("1")}

\* Objects with all the envelope fields of a Request, params optional.
EnvelopeObjects ==
    {JObj([jsonrpc |-> JStr("2.0"), method |-> JStr(m), params |-> p, id |-> i]) :
        m \in Methods, p \in ParamValues, i \in IdValues}
    \cup
    {JObj([jsonrpc |-> JStr("2.0"), method |-> JStr(m), id |-> i]) :
        m \in Methods, i \in IdValues}

\* Variations of one Request: another version string, an extra key, a
\* missing or mistyped envelope field.
OddObjects ==
    {JObj([jsonrpc |-> JStr("1.0"), method |-> JStr("example_fn2"),
           params |-> JArr(<<JNum(100)>>), id |-> JNum(1)]),
     JObj([jsonrpc |-> JStr("2.0"), method |-> JStr("example_fn2"),
           params |-> JArr(<<JNum(100)>>), id |-> JNum(1), extra |-> JNull]),
     JObj([jsonrpc |-> JStr("2.0"), params |-> JArr(<<JNum(100)>>), id |-> JNum(1)]),
     JObj([jsonrpc |-> JStr("2.0"), method |-> JNum(1),
           params |-> JArr(<<JNum(100)>>), id |-> JNum(1)]),
     JObj([method |-> JStr("example_fn2"), params |-> JArr(<<JNum(100)>>),
           id |-> JNum(1)]),
     JObj([jsonrpc |-> JNum(2), method |-> JStr("example_fn2"),
           params |-> JArr(<<JNum(100)>>), id |-> JNum(1)]),
     JObj([jsonrpc |-> JStr("2.0"), method |-> JStr("example_fn2"),
           params |-> JArr(<<JNum(100)>>)])}

Scalars == {JNull, JBool(TRUE), JNum(7), JStr("x")}

\* What a batch may hold: the Requests with id 1, the other ids on
\* example_fn2, the variations, a Request written positionally, a scalar.
Items ==
    {o \in EnvelopeObjects :
        \/ o.o.id = JNum(1)
        \/ /\ o.o.method = JStr("example_fn2")
           /\ ("params" \in DOMAIN o.o => o.o.params = JArr(<<JNum(100)>>))}
    \cup OddObjects
    \cup {JArr(<<JStr("2.0"), JStr("example_fn2"), JArr(<<JNum(100)>>), JNum(1)>>),
          JStr("x")}

SeqsUpTo(S, n) == UNION {[1..k -> S] : k \in 0..n}

Bodies ==
    {Malformed} \cup Scalars \cup EnvelopeObjects \cup OddObjects
    \cup {JArr(a) : a \in SeqsUpTo(Items, MaxBatch)}


(***************************************************************************)
(* client.rs: call                                                         *)
(***************************************************************************)
\* A params value whose Serialize implementation fails.
Unserializable == [t |-> "unserializable"]

\* RPCRequest::new(method, params): the id is the constant 1.
RPCRequest_new(method, params) == RPCRequest("2.0", method, params, JNum(1))

\* derived Serialize of RPCRequest<&P>
SerRPCRequest(req) ==
    JObj([jsonrpc |-> JStr(req.jsonrpc), method |-> JStr(req.method),
          params |-> req.params, id |-> req.id])

\* serde_json::to_string(&req)
to_string(req) ==
    IF req.params = Unserializable THEN DecErr ELSE DecOk(SerRPCRequest(req))

\* call / batch_call: the headers of the POST
post_headers(auth) ==
    IF auth.some
    THEN <<<<"content-type", "application/json">>, <<"Authorization", "Bearer " \o auth.v>>>>
    ELSE <<<<"content-type", "application/json">>>>

\* The status check left out.
is_success_any(status) == TRUE

\* StatusCode::is_success as call and batch_call use it
is_success(status) == status >= 200 /\ status < 300

\* A field of type Option<Value> (R = Value): missing or null is None.
DeOptionValue(f) == IF ~f.some \/ f.v.t = "null" THEN DecOk(None) ELSE DecOk(Some(f.v))

\* A field of type Option<String>
DeOptionString(f) ==
    IF ~f.some \/ f.v.t = "null" THEN DecOk(None)
    ELSE IF f.v.t = "str" THEN DecOk(Some(f.v.s))
    ELSE DecErr

\* A field of type i32
DeI32(f) == IF f.some /\ f.v.t = "num" THEN DecOk(f.v.n) ELSE DecErr

ErrorFieldNames == <<"code", "message", "data">>

\* derived Deserialize of RPCError
DeRPCError(v) ==
    LET fs == StructFields(v, ErrorFieldNames) IN
    IF ~fs.ok THEN DecErr
    ELSE LET c == DeI32(fs.val[1])
             m == DeString(fs.val[2])
             d == DeOptionString(fs.val[3])
         IN IF c.ok /\ m.ok /\ d.ok THEN DecOk(RPCError(c.val, m.val, d.val)) ELSE DecErr

\* A field of type Option<RPCError>
DeOptionError(f) ==
    IF ~f.some \/ f.v.t = "null" THEN DecOk(None)
    ELSE IF DeRPCError(f.v).ok THEN DecOk(Some(DeRPCError(f.v).val))
    ELSE DecErr

ResponseFieldNames == <<"jsonrpc", "result", "error", "id">>

\* serde_json::from_slice::<RPCResponse<R>>
DeRPCResponse(bytes) ==
    IF bytes = Malformed THEN DecErr
    ELSE LET fs == StructFields(bytes, ResponseFieldNames) IN
         IF ~fs.ok THEN DecErr
         ELSE LET j == DeString(fs.val[1])
                  r == DeOptionValue(fs.val[2])
                  e == DeOptionError(fs.val[3])
                  i == DeValue(fs.val[4])
              IN IF j.ok /\ r.ok /\ e.ok /\ i.ok
                 THEN DecOk([jsonrpc |-> j.val, result |-> r.val, error |-> e.val,
                             id |-> i.val])
                 ELSE DecErr

\* What http_post returns: Err, or (status_code, bytes).
PostErr == [ok |-> FALSE]
PostOk(status, bytes) == [ok |-> TRUE, status |-> status, bytes |-> bytes]

\* call taking result when the Response has one, and error only otherwise.
call_result_prefers_result(reply) ==
    IF ~reply.ok THEN Err(internal_error("http_post"))
    ELSE IF ~is_success(reply.status) THEN Err(internal_error("Failed to request uri"))
    ELSE LET resp == DeRPCResponse(reply.bytes) IN
         IF ~resp.ok THEN Err(internal_error("from_slice"))
         ELSE IF resp.val.result.some THEN Ok(resp.val.result)
         ELSE IF resp.val.error.some THEN Err(resp.val.error.v)
         ELSE Ok(None)

\* call, from the return of http_post to its own return
call_result(reply) ==
    IF ~reply.ok THEN Err(internal_error("http_post"))
    ELSE IF ~is_success(reply.status) THEN Err(internal_error("Failed to request uri"))
    ELSE LET resp == DeRPCResponse(reply.bytes) IN
         IF ~resp.ok THEN Err(internal_error("from_slice"))
         ELSE IF resp.val.error.some THEN Err(resp.val.error.v)
         ELSE Ok(resp.val.result)

NoPost == [sent |-> FALSE]
NoReply == [got |-> FALSE]
NoRet == [returned |-> FALSE]
\* posts counts the invocations of http_post made by the call in progress
\* (it is not program state).
IdleClient ==
    [pc |-> "idle", post |-> NoPost, reply |-> NoReply, ret |-> NoRet, posts |-> 0]

\* call: build and serialize the Request; a serialization failure returns
\* at once, otherwise the POST is sent and the future suspends in http_post
call(method, params, auth) ==
    /\ client.pc = "idle"
    /\ LET req == RPCRequest_new(method, params)
           s == to_string(req)
       IN IF ~s.ok
          THEN client' = [client EXCEPT
                            !.pc = "done",
                            !.ret = [returned |-> TRUE,
                                     val |-> Err(internal_error("to_string"))]]
          ELSE client' = [client EXCEPT
                            !.pc = "call_post",
                            !.posts = @ + 1,
                            !.post = [sent |-> TRUE, body |-> s.val,
                                      headers |-> post_headers(auth)]]
    /\ UNCHANGED <<handler, conn>>

\* call: http_post returns
call_return(replies) ==
    /\ client.pc = "call_post"
    /\ \E reply \in replies :
          client' = [client EXCEPT
                       !.pc = "done",
                       !.reply = [got |-> TRUE, val |-> reply],
                       !.ret = [returned |-> TRUE, val |-> call_result(reply)]]
    /\ UNCHANGED <<handler, conn>>

(***************************************************************************)
(* client.rs: batch_call                                                   *)
(***************************************************************************)
\* anyhow::Error: the generic failure of batch_call, no RPCError in it
GenericErr(why) == [ok |-> FALSE, why |-> why]

\* serde_json::to_string(&requests)
to_string_batch(requests) ==
    IF \E i \in 1..Len(requests) : requests[i].params = Unserializable
    THEN DecErr
    ELSE DecOk(JArr([i \in 1..Len(requests) |-> SerRPCRequest(requests[i])]))

\* from_slice that leaves out the elements that do not decode.
DeResponses_skip_bad(bytes) ==
    IF bytes = Malformed \/ bytes.t # "arr" THEN DecErr
    ELSE LET good == SelectSeq(bytes.a, LAMBDA x : DeRPCResponse(x).ok)
         IN DecOk([k \in 1..Len(good) |-> DeRPCResponse(good[k]).val])

\* serde_json::from_slice::<Vec<RPCResponse<R>>>: an array whose every
\* element decodes.
DeResponses(bytes) ==
    IF bytes = Malformed \/ bytes.t # "arr" THEN DecErr
    ELSE IF \A k \in 1..Len(bytes.a) : DeRPCResponse(bytes.a[k]).ok
    THEN DecOk([k \in 1..Len(bytes.a) |-> DeRPCResponse(bytes.a[k]).val])
    ELSE DecErr

\* batch_call, from the return of http_post to its own return
batch_call_result(reply) ==
    IF ~reply.ok THEN GenericErr("http_post")
    ELSE IF is_success(reply.status)
    THEN LET d == DeResponses(reply.bytes) IN
         IF d.ok THEN [ok |-> TRUE, val |-> d.val] ELSE GenericErr("from_slice")
    ELSE GenericErr("Failed to request uri")

\* batch_call: serialize the requests; a serialization failure returns at
\* once, otherwise the POST is sent and the future suspends in http_post
batch_call(requests, auth) ==
    /\ client.pc = "idle"
    /\ LET s == to_string_batch(requests)
       IN IF ~s.ok
          THEN client' = [client EXCEPT
                            !.pc = "batch_done",
                            !.ret = [returned |-> TRUE, val |-> GenericErr("to_string")]]
          ELSE client' = [client EXCEPT
                            !.pc = "batch_post",
                            !.posts = @ + 1,
                            !.post = [sent |-> TRUE, body |-> s.val,
                                      headers |-> post_headers(auth)]]
    /\ UNCHANGED <<handler, conn>>

\* batch_call: http_post returns
batch_call_return(replies) ==
    /\ client.pc = "batch_post"
    /\ \E reply \in replies :
          client' = [client EXCEPT
                       !.pc = "batch_done",
                       !.reply = [got |-> TRUE, val |-> reply],
                       !.ret = [returned |-> TRUE, val |-> batch_call_result(reply)]]
    /\ UNCHANGED <<handler, conn>>

\* The caller takes the result; the next call may start.
next_call ==
    /\ client.pc \in {"done", "batch_done"}
    /\ client' = IdleClient
    /\ UNCHANGED <<handler, conn>>

(***************************************************************************)
(* What the HTTP peer may answer                                           *)
(***************************************************************************)
Statuses == {200, 299, 300, 404, 500}

ReplyBodies ==
    {Malformed, JNull, JArr(<< >>),
     into_value(RPCResponse_result(JNum(1), Some(JArr(<<JNum(100)>>)))),
     into_value(RPCResponse_result(JNum(1), None)),
     into_value(RPCResponse_error(JNum(1), unknown_method)),
     into_value(RPCResponse_error(JNull, internal_error("boom"))),
     SerRPCResponse(RPCResponse_result(JNum(1), Some(JStr("ok")))),
     SerRPCResponse(RPCResponse_error(JNum(1), invalid_params)),
     JObj([jsonrpc |-> JStr("2.0"), result |-> JStr("ok"),
           error |-> SerRPCError(RPCError(42, "custom", None)), id |-> JNum(1)]),
     JObj([jsonrpc |-> JStr("2.0"), id |-> JNum(1)]),
     JObj([jsonrpc |-> JStr("2.0"), result |-> JStr("ok")]),
     JObj([result |-> JStr("ok"), id |-> JNum(1)]),
     JObj([jsonrpc |-> JStr("2.0"), error |-> JStr("x"), id |-> JNum(1)]),
     JArr(<<JStr("2.0"), JStr("ok"), JNull, JNum(1)>>)}

HttpReplies == {PostErr} \cup {PostOk(st, b) : st \in Statuses, b \in ReplyBodies}

BatchReplyBodies ==
    {Malformed, JNull, JArr(<< >>),
     into_value(RPCResponse_result(JNum(1), None)),
     JArr(<<into_value(RPCResponse_result(JNum(1), Some(JArr(<<JNum(100)>>))))>>),
     JArr(<<SerRPCResponse(RPCResponse_result(JNum(1), Some(JArr(<<JNum(100)>>)))),
            SerRPCResponse(RPCResponse_error(JNum(2), unknown_method))>>),
     JArr(<<into_value(RPCResponse_result(JNum(1), Some(JStr("ok")))),
            JObj([jsonrpc |-> JStr("2.0"), error |-> JStr("x"), id |-> JNum(2)])>>),
     JArr(<<JStr("x")>>)}

BatchHttpReplies ==
    {PostErr} \cup {PostOk(st, b) : st \in Statuses, b \in BatchReplyBodies}

\* The requests batch_call is given.
BatchRequests ==
    SeqsUpTo({RPCRequest_new("example_fn2", JArr(<<JNum(100)>>)),
              RPCRequest("2.0", "nope", JNull, JNum(2)),
              RPCRequest_new("example_fn1", Unserializable)}, MaxBatch)

ClientParams ==
    {JNull, JArr(<<JNum(10), JBool(TRUE)>>), JArr(<<JNum(100)>>), Unserializable}
ClientAuth == {None, Some("token")}

(***************************************************************************)
(* The server, one connection                                              *)
(***************************************************************************)
\* The connections of the single-connection server.
Conns == {1}

Init ==
    /\ handler \in Handlers
    /\ conn = [c \in Conns |-> IdleConn]
    /\ client = IdleClient

Next ==
    \E c \in Conns :
        \/ call_begin(c, Bodies)
        \/ call_parse_fail(c)
        \/ call_object(c)
        \/ _handle_return(c)
        \/ call_array(c)
        \/ batch_handle_return(c)
        \/ call_other(c)
        \/ next_request(c)

Spec == Init /\ [][Next]_vars

(***************************************************************************)
(* The client                                                              *)
(***************************************************************************)
ClientInit ==
    /\ handler = "ExampleHandle"
    /\ conn = [c \in Conns |-> IdleConn]
    /\ client = IdleClient

ClientNext ==
    \/ \E m \in Methods, p \in ClientParams, a \in ClientAuth : call(m, p, a)
    \/ call_return(HttpReplies)
    \/ \E rs \in BatchRequests, a \in ClientAuth : batch_call(rs, a)
    \/ batch_call_return(BatchHttpReplies)
    \/ next_call

SpecClient == ClientInit /\ [][ClientNext]_vars

(***************************************************************************)
(* Properties                                                              *)
(***************************************************************************)
(***************************************************************************)
(* Several connections served at once                                      *)
(***************************************************************************)
NumConns == 2
ConcConns == 1..NumConns

\* The bodies the connections send.
ConcBodies ==
    {Malformed, JNum(1),
     JObj([jsonrpc |-> JStr("2.0"), method |-> JStr("example_fn2"),
           params |-> JArr(<<JNum(100)>>), id |-> JNum(1)]),
     JArr(<<JObj([jsonrpc |-> JStr("2.0"), method |-> JStr("example_fn2"),
                  params |-> JArr(<<JNum(100)>>), id |-> JNum(1)]),
            JObj([jsonrpc |-> JStr("2.0"), method |-> JStr("nope"),
                  id |-> JNum(2)])>>)}

ConcInit ==
    /\ handler \in Handlers
    /\ conn = [c \in ConcConns |-> IdleConn]
    /\ client = IdleClient

ConcNext ==
    \E c \in ConcConns :
        \/ call_begin(c, ConcBodies)
        \/ call_parse_fail(c)
        \/ call_object(c)
        \/ _handle_return(c)
        \/ call_array(c)
        \/ batch_handle_return(c)
        \/ call_other(c)
        \/ next_request(c)

\* The steps of connection c the runtime takes on its own, and the returns
\* of its handler calls.
Dispatch(c) ==
    call_parse_fail(c) \/ call_object(c) \/ call_array(c) \/ call_other(c)
Return(c) == _handle_return(c) \/ batch_handle_return(c)

\* serve: every connection's future is polled by the runtime whenever it can
\* advance.  The handler calls of connection 1 may never complete; those of
\* the other connections do.
ConcFair ==
    /\ \A c \in ConcConns : WF_vars(Dispatch(c))
    /\ \A c \in ConcConns \ {1} : WF_vars(Return(c))

SpecConc == ConcInit /\ [][ConcNext]_vars /\ ConcFair

(***************************************************************************)
(* A client and the server side by side                                    *)
(***************************************************************************)
\* The bodies the server is sent: those of ConcBodies, a request whose params
\* are a pair, and a batch whose second item is no Request.
BothBodies ==
    ConcBodies \cup
    {JObj([jsonrpc |-> JStr("2.0"), method |-> JStr("example_fn1"),
           params |-> JArr(<<JNum(10), JBool(TRUE)>>), id |-> JNum(1)]),
     JArr(<<JObj([jsonrpc |-> JStr("2.0"), method |-> JStr("example_fn2"),
                  params |-> JArr(<<JNum(100)>>), id |-> JNum(1)]),
            JStr("x")>>)}

\* What the client is asked to send and what http_post gives back.
BothParams == {JArr(<<JNum(100)>>), Unserializable}
BothRequests ==
    {<< >>, <<RPCRequest_new("example_fn2", JArr(<<JNum(100)>>))>>,
     <<RPCRequest_new("example_fn2", JArr(<<JNum(100)>>)),
       RPCRequest_new("example_fn1", Unserializable)>>}
BothReplies ==
    {PostErr, PostOk(500, JNull),
     PostOk(200, into_value(RPCResponse_result(JNum(1), Some(JArr(<<JNum(100)>>)))))}
BothBatchReplies ==
    {PostErr, PostOk(500, JNull),
     PostOk(200, JArr(<<into_value(RPCResponse_result(JNum(1), Some(JArr(<<JNum(100)>>))))>>))}

BothNext ==
    \/ \E c \in Conns :
          \/ call_begin(c, BothBodies)
          \/ call_parse_fail(c)
          \/ call_object(c)
          \/ _handle_return(c)
          \/ call_array(c)
          \/ batch_handle_return(c)
          \/ call_other(c)
          \/ next_request(c)
    \/ \E p \in BothParams : call("example_fn2", p, None)
    \/ call_return(BothReplies)
    \/ \E rs \in BothRequests : batch_call(rs, None)
    \/ batch_call_return(BothBatchReplies)
    \/ next_call

SpecBoth == Init /\ [][BothNext]_vars

Done(c) == conn[c].pc = "done"

\* The body of connection c decodes as one Request / as a batch.
DecodesOne(c) ==
    /\ conn[c].body # Malformed
    /\ conn[c].body.t = "obj"
    /\ DeRPCRequest(handler, conn[c].body).ok
DecodesBatch(c) ==
    /\ conn[c].body # Malformed
    /\ conn[c].body.t = "arr"
    /\ DeBatch(handler, conn[c].body).ok

\* The id and method of a Request as written in the body.
RawId(item) == IF item.t = "obj" THEN item.o.id ELSE item.a[4]
RawMethod(item) == IF item.t = "obj" THEN item.o.method.s ELSE item.a[2].s

HasKey(v, k) == v.t = "obj" /\ k \in DOMAIN v.o
ExactlyOneOfResultError(v) == HasKey(v, "result") # HasKey(v, "error")
IsErrorWithCode(v, code) ==
    /\ HasKey(v, "error")
    /\ HasKey(v.o.error, "code")
    /\ v.o.error.o.code = JNum(code)
IsRpcResponse(v) ==
    /\ HasKey(v, "jsonrpc") /\ v.o.jsonrpc = JStr("2.0")
    /\ HasKey(v, "id")
    /\ (HasKey(v, "result") \/ HasKey(v, "error"))

\* C1: a batch of N well-formed Requests is answered by exactly N Responses,
\* and the i-th Response carries the id of the i-th Request, in the vector
\* batch_handle returns and in the array sent back.
C1_BatchOrder ==
    \A c \in DOMAIN conn :
        (Done(c) /\ DecodesBatch(c)) =>
            LET items == conn[c].body.a IN
            /\ Len(conn[c].response) = Len(items)
            /\ \A i \in 1..Len(items) : conn[c].response[i].id = RawId(items[i])
            /\ conn[c].out.kind = "response"
            /\ conn[c].out.body.t = "arr"
            /\ Len(conn[c].out.body.a) = Len(items)
            /\ \A i \in 1..Len(items) :
                  HasKey(conn[c].out.body.a[i], "id")
                  /\ conn[c].out.body.a[i].o.id = RawId(items[i])

\* A finished batch of two Requests with different ids.
C1_Witness ==
    \E c \in DOMAIN conn :
        /\ Done(c) /\ DecodesBatch(c)
        /\ Len(conn[c].body.a) = 2
        /\ RawId(conn[c].body.a[1]) # RawId(conn[c].body.a[2])
        /\ Len(conn[c].response) = 2

\* C2: on the single-request path the Response carries the id of the
\* Request (number, string or null), whether the handler succeeded or
\* returned an RPCError.
C2_SingleIdEchoed ==
    \A c \in DOMAIN conn :
        (Done(c) /\ DecodesOne(c)) =>
            /\ conn[c].out.kind = "response"
            /\ HasKey(conn[c].out.body, "id")
            /\ conn[c].out.body.o.id = conn[c].body.o.id

\* A single Request with a string id that the handler answered by an error.
C2_Witness ==
    \E c \in DOMAIN conn :
        /\ Done(c) /\ DecodesOne(c)
        /\ conn[c].body.o.id = JStr("1")
        /\ ~conn[c].calls[1].ret.ok
        /\ conn[c].out.kind = "response"

\* C3: in a batch the handler is called once on every item, in order,
\* whatever it returned for the items before; the i-th Response is an error
\* Response exactly when the i-th call failed, and carries that call's
\* value or error.
C3_BatchItemsIndependent ==
    \A c \in DOMAIN conn :
        /\ (conn[c].pc = "batch_await" =>
                /\ Len(conn[c].calls) = Len(conn[c].response)
                /\ Len(conn[c].calls) < Len(conn[c].body.a))
        /\ (Done(c) /\ DecodesBatch(c)) =>
                LET items == conn[c].body.a IN
                /\ Len(conn[c].calls) = Len(items)
                /\ Len(conn[c].response) = Len(items)
                /\ \A i \in 1..Len(items) :
                      /\ conn[c].calls[i].method = RawMethod(items[i])
                      /\ IF conn[c].calls[i].ret.ok
                         THEN /\ ~conn[c].response[i].error.some
                              /\ conn[c].response[i].result = conn[c].calls[i].ret.val
                         ELSE /\ conn[c].response[i].error = Some(conn[c].calls[i].ret.err)
                              /\ ~conn[c].response[i].result.some

\* A finished batch whose first call failed and whose second succeeded.
C3_Witness ==
    \E c \in DOMAIN conn :
        /\ Done(c) /\ DecodesBatch(c)
        /\ Len(conn[c].calls) = 2
        /\ ~conn[c].calls[1].ret.ok
        /\ conn[c].calls[2].ret.ok
        /\ conn[c].response[2].result.some

\* C4: on the single-request path the serialized Response has exactly one of
\* the keys result and error: error when the handler failed, result when it
\* succeeded, also with no payload.
C4_SingleExactlyOne ==
    \A c \in DOMAIN conn :
        (Done(c) /\ DecodesOne(c)) =>
            /\ conn[c].out.kind = "response"
            /\ ExactlyOneOfResultError(conn[c].out.body)
            /\ HasKey(conn[c].out.body, "error") <=> ~conn[c].calls[1].ret.ok

\* A single Request the handler answered by Ok(None).
C4_Witness ==
    \E c \in DOMAIN conn :
        /\ Done(c) /\ DecodesOne(c)
        /\ conn[c].calls[1].ret = Ok(None)
        /\ HasKey(conn[c].out.body, "result")

\* C5: on the batch path every element of the serialized array has exactly
\* one of the keys result and error, the unset one being omitted.
C5_BatchExactlyOne ==
    \A c \in DOMAIN conn :
        (Done(c) /\ DecodesBatch(c) /\ conn[c].out.kind = "response") =>
            \A i \in 1..Len(conn[c].out.body.a) :
                ExactlyOneOfResultError(conn[c].out.body.a[i])

\* C6: an array body with an item that does not decode as a Request is
\* answered by a Response whose error code is parse_error.
C6_BadItemParseError ==
    \A c \in DOMAIN conn :
        (/\ Done(c)
         /\ conn[c].body # Malformed
         /\ conn[c].body.t = "arr"
         /\ \E i \in 1..Len(conn[c].body.a) : ~DeRPCRequest(handler, conn[c].body.a[i]).ok)
        => /\ conn[c].out.kind = "response"
           /\ IsErrorWithCode(conn[c].out.body, CodeParseError)

\* An object without method, with a method that is no string, or without
\* jsonrpc.
BadEnvelope(v) ==
    \/ ~HasKey(v, "method")
    \/ v.o.method.t # "str"
    \/ ~HasKey(v, "jsonrpc")

\* C7: an object body without method, with a non-string method or without
\* jsonrpc fails to decode, and the failure is reported with the
\* parse_error code.
C7_BadEnvelopeParseError ==
    \A c \in DOMAIN conn :
        (/\ Done(c)
         /\ conn[c].body # Malformed
         /\ conn[c].body.t = "obj"
         /\ BadEnvelope(conn[c].body))
        => /\ ~DeRPCRequest(handler, conn[c].body).ok
           /\ conn[c].out.kind = "response"
           /\ IsErrorWithCode(conn[c].out.body, CodeParseError)

\* C8: a body that is a number, a string, a boolean or null never reaches the
\* handler and gets no Response: the exchange ends in a transport error.
C8_ScalarBodyRejected ==
    \A c \in DOMAIN conn :
        (conn[c].pc # "idle" /\ conn[c].body.t \in {"null", "bool", "num", "str"}) =>
            /\ conn[c].pc \in {"body", "done"}
            /\ conn[c].calls = << >>
            /\ conn[c].out.kind # "response"
            /\ (Done(c) => conn[c].out.kind = "error")

\* A string body whose exchange is over.
C8_Witness ==
    \E c \in DOMAIN conn :
        /\ Done(c)
        /\ conn[c].body = JStr("x")
        /\ conn[c].out.kind = "error"

C10_NonSuccessIsInternalError ==
    (/\ client.pc = "done"
     /\ client.reply.got
     /\ client.reply.val.ok
     /\ ~(client.reply.val.status >= 200 /\ client.reply.val.status < 300))
    => /\ client.ret.returned
       /\ ~client.ret.val.ok
       /\ client.ret.val.err.code = CodeInternalError

\* A 404 reply whose body is a well-formed JSON-RPC error Response.
C10_Witness ==
    /\ client.pc = "done"
    /\ client.reply.got
    /\ client.reply.val.ok
    /\ client.reply.val.status = 404
    /\ client.reply.val.bytes = into_value(RPCResponse_error(JNum(1), unknown_method))
    /\ ~client.ret.val.ok
    /\ client.ret.val.err.code = CodeInternalError

\* The value a Response body gives for key k (position pos when the Response
\* is written as an array): None when the key is missing or null.
RawMember(v, k, pos) ==
    IF v.t = "obj"
    THEN IF k \in DOMAIN v.o /\ v.o[k] # JNull THEN Some(v.o[k]) ELSE None
    ELSE IF v.a[pos] # JNull THEN Some(v.a[pos]) ELSE None

\* C11: when call gets a success-class status and a body that decodes as a
\* Response, the caller receives Err(e) exactly when the body carries an
\* error e (also beside a result), and Ok(result) otherwise, result being
\* absent when the body has none.
C11_CallSurfacesErrorOrResult ==
    (/\ client.pc = "done"
     /\ client.reply.got
     /\ client.reply.val.ok
     /\ client.reply.val.status >= 200 /\ client.reply.val.status < 300
     /\ DeRPCResponse(client.reply.val.bytes).ok)
    => LET body == client.reply.val.bytes
           e == RawMember(body, "error", 3)
           r == RawMember(body, "result", 2)
       IN /\ client.ret.returned
          /\ IF e.some
             THEN /\ ~client.ret.val.ok
                  /\ SerRPCError(client.ret.val.err) = e.v
             ELSE client.ret.val = Ok(r)

\* A 200 reply carrying the error "Method not found", surfaced to the caller.
C11_Witness ==
    /\ client.pc = "done"
    /\ client.reply.got
    /\ client.reply.val.ok
    /\ client.reply.val.status = 200
    /\ client.reply.val.bytes = into_value(RPCResponse_error(JNum(1), unknown_method))
    /\ client.ret.val = Err(unknown_method)

\* A Request, written as an object or positionally, whose jsonrpc and method
\* are strings and whose id is present.
GoodEnvelope(v) ==
    \/ /\ HasKey(v, "jsonrpc") /\ v.o.jsonrpc.t = "str"
       /\ HasKey(v, "method") /\ v.o.method.t = "str"
       /\ HasKey(v, "id")
    \/ /\ v.t = "arr" /\ Len(v.a) = 4
       /\ v.a[1].t = "str" /\ v.a[2].t = "str"

RegisteredMethods == {"example_fn1", "example_fn2"}

\* The params a registered method of the example handler expects:
\* example_fn1 (u32, bool), example_fn2 (u64,).
FitsMethod(m, p) ==
    /\ p.some
    /\ p.v.t = "arr"
    /\ IF m = "example_fn1"
       THEN Len(p.v.a) = 2 /\ p.v.a[1].t = "num" /\ p.v.a[1].n >= 0 /\ p.v.a[2].t = "bool"
       ELSE Len(p.v.a) = 1 /\ p.v.a[1].t = "num" /\ p.v.a[1].n >= 0

\* C12: with the example handler, a Request whose method is not registered is
\* answered by the Response {jsonrpc "2.0", error {code -32601, message
\* "Method not found"}, id echoed}: no data, no result.  In a batch the
\* Response batch_handle returns for it has that error, no result and the id.
C12_UnknownMethod ==
    \A c \in DOMAIN conn :
        (handler = "ExampleHandle" /\ Done(c)) =>
            /\ (DecodesOne(c) /\ conn[c].body.o.method.s \notin RegisteredMethods) =>
                  /\ conn[c].out.kind = "response"
                  /\ conn[c].out.body =
                        JObj([jsonrpc |-> JStr("2.0"),
                              error |-> JObj([code |-> JNum(-32601),
                                              message |-> JStr("Method not found")]),
                              id |-> conn[c].body.o.id])
            /\ DecodesBatch(c) =>
                  \A i \in 1..Len(conn[c].body.a) :
                      RawMethod(conn[c].body.a[i]) \notin RegisteredMethods =>
                          conn[c].response[i] =
                              [jsonrpc |-> "2.0", result |-> None,
                               error |-> Some([code |-> -32601,
                                               message |-> "Method not found",
                                               data |-> None]),
                               id |-> RawId(conn[c].body.a[i])]

\* The method "nope" with a string id, answered by the example handler.
C12_Witness ==
    \E c \in DOMAIN conn :
        /\ handler = "ExampleHandle"
        /\ Done(c) /\ DecodesOne(c)
        /\ conn[c].body.o.method = JStr("nope")
        /\ conn[c].body.o.id = JStr("1")
        /\ conn[c].out.kind = "response"

\* C13: with the example handler, a registered method called with params that
\* are absent, null or of another shape than the method expects is answered
\* by an error Response with code -32602: never a result, never a transport
\* failure.
C13_InvalidParams ==
    \A c \in DOMAIN conn :
        (handler = "ExampleHandle" /\ Done(c) /\ conn[c].body # Malformed) =>
            LET body == conn[c].body IN
            /\ (/\ body.t = "obj" /\ GoodEnvelope(body)
                /\ body.o.method.s \in RegisteredMethods
                /\ ~FitsMethod(body.o.method.s, RawMember(body, "params", 3)))
               => /\ conn[c].out.kind = "response"
                  /\ IsErrorWithCode(conn[c].out.body, -32602)
                  /\ ~HasKey(conn[c].out.body, "result")
            /\ (body.t = "arr" /\ \A i \in 1..Len(body.a) : GoodEnvelope(body.a[i]))
               => \A i \in 1..Len(body.a) :
                     (/\ RawMethod(body.a[i]) \in RegisteredMethods
                      /\ ~FitsMethod(RawMethod(body.a[i]), RawMember(body.a[i], "params", 3)))
                     => /\ conn[c].out.kind = "response"
                        /\ Len(conn[c].response) = Len(body.a)
                        /\ conn[c].response[i].error.some
                        /\ conn[c].response[i].error.v.code = -32602
                        /\ ~conn[c].response[i].result.some
                        /\ IsErrorWithCode(conn[c].out.body.a[i], -32602)

\* example_fn1 called with the params of example_fn2.
C13_Witness ==
    \E c \in DOMAIN conn :
        /\ handler = "ExampleHandle"
        /\ Done(c)
        /\ conn[c].body # Malformed /\ conn[c].body.t = "obj" /\ GoodEnvelope(conn[c].body)
        /\ conn[c].body.o.method = JStr("example_fn1")
        /\ HasKey(conn[c].body, "params")
        /\ conn[c].body.o.params = JArr(<<JNum(100)>>)
        /\ IsErrorWithCode(conn[c].out.body, -32602)

\* C14: when the exchange of batch_call fails in transport (http_post fails,
\* the status is outside 200..299, or the body is not an array whose every
\* element decodes as a Response), the call fails as a whole with the generic
\* error: no list of Responses, partial or not, and no RPCError.
C14_BatchCallAllOrNothing ==
    (/\ client.pc = "batch_done"
     /\ client.reply.got
     /\ LET reply == client.reply.val IN
        \/ ~reply.ok
        \/ ~(reply.status >= 200 /\ reply.status < 300)
        \/ reply.bytes = Malformed
        \/ reply.bytes.t # "arr"
        \/ \E k \in 1..Len(reply.bytes.a) : ~DeRPCResponse(reply.bytes.a[k]).ok)
    => /\ client.ret.returned
       /\ ~client.ret.val.ok
       /\ DOMAIN client.ret.val = {"ok", "why"}

\* A 200 reply whose array holds a Response and an element that is none.
C14_Witness ==
    /\ client.pc = "batch_done"
    /\ client.reply.got
    /\ client.reply.val.ok
    /\ client.reply.val.status = 200
    /\ client.reply.val.bytes # Malformed
    /\ client.reply.val.bytes.t = "arr"
    /\ Len(client.reply.val.bytes.a) = 2
    /\ DeRPCResponse(client.reply.val.bytes.a[1]).ok
    /\ ~DeRPCResponse(client.reply.val.bytes.a[2]).ok
    /\ ~client.ret.val.ok

\* C15: for any handler, a Request with well-formed jsonrpc, method and id is
\* answered with a Response carrying its id whatever the shape of its params:
\* the single exchange yields a response with that id, and a batch of such
\* Requests yields a response listing one Response per item with the item's id.
C15_ParamsShapeNotValidated ==
    \A c \in DOMAIN conn :
        (Done(c) /\ conn[c].body # Malformed) =>
            /\ (conn[c].body.t = "obj" /\ GoodEnvelope(conn[c].body)) =>
                  /\ conn[c].out.kind = "response"
                  /\ HasKey(conn[c].out.body, "id")
                  /\ conn[c].out.body.o.id = conn[c].body.o.id
            /\ (/\ conn[c].body.t = "arr"
                /\ \A i \in 1..Len(conn[c].body.a) :
                      /\ conn[c].body.a[i].t \in {"obj", "arr"}
                      /\ GoodEnvelope(conn[c].body.a[i])) =>
                  /\ conn[c].out.kind = "response"
                  /\ Len(conn[c].response) = Len(conn[c].body.a)
                  /\ \A i \in 1..Len(conn[c].body.a) :
                        conn[c].response[i].id = RawId(conn[c].body.a[i])

\* C16: within one batch the handler calls happen in array order and never
\* overlap: at every moment the completed calls are those of items 1..i in
\* that order, at most one call is outstanding, and it is the call of item
\* i+1.
C16_BatchSequential ==
    \A c \in DOMAIN conn :
        (conn[c].body # Malformed /\ conn[c].body.t = "arr") =>
            /\ Cardinality(conn[c].cur) <= 1
            /\ conn[c].cur \subseteq {Len(conn[c].calls) + 1}
            /\ Len(conn[c].calls) <= Len(conn[c].reqs)
            /\ \A i \in 1..Len(conn[c].calls) :
                  /\ conn[c].calls[i].method = conn[c].reqs[i].method
                  /\ conn[c].calls[i].params = conn[c].reqs[i].params

\* A batch of two: the first call is complete, the second outstanding.
C16_Witness ==
    \E c \in DOMAIN conn :
        /\ conn[c].pc = "batch_await"
        /\ Len(conn[c].reqs) = 2
        /\ Len(conn[c].calls) = 1
        /\ conn[c].cur = {2}

\* C17: the handler is shared without a lock: whatever connection 1 does, be
\* its handler call slow or never completing, a decodable request on another
\* connection is dispatched and eventually answered with a response.
C17_NoDispatcherLock ==
    \A c \in ConcConns \ {1} :
        (conn[c].pc = "body" /\ (DecodesOne(c) \/ DecodesBatch(c)))
            ~> (conn[c].pc = "done" /\ conn[c].out.kind = "response")

\* Connection 1 still waits for its handler while connection 2, which
\* arrived later, has its response.
C17_Witness ==
    /\ conn[1].pc \in {"single_await", "batch_await"}
    /\ conn[1].cur # {}
    /\ conn[2].pc = "done"
    /\ conn[2].calls # << >>
    /\ conn[2].out.kind = "response"

\* The Requests of the body of connection c that are well-formed.
WellFormedItems(c) ==
    IF conn[c].body.t = "obj"
    THEN IF DeRPCRequest(handler, conn[c].body).ok THEN {1} ELSE {}
    ELSE IF conn[c].body.t = "arr"
    THEN {i \in 1..Len(conn[c].body.a) :
            /\ conn[c].body.a[i].t \in {"obj", "arr"}
            /\ DeRPCRequest(handler, conn[c].body.a[i]).ok}
    ELSE {}

\* Every failed invocation has its one error Response, at its place.
OneErrorResponsePerFailure(c) ==
    /\ Len(conn[c].response) = Len(conn[c].calls)
    /\ \A i \in 1..Len(conn[c].calls) :
          /\ conn[c].response[i].id = conn[c].reqs[i].id
          /\ IF conn[c].calls[i].ret.ok
             THEN conn[c].response[i].error = None
             ELSE conn[c].response[i].error = Some(conn[c].calls[i].ret.err)

\* C18 as stated: every well-formed Request, single or inside a batch, causes
\* exactly one invocation of handle, a failed invocation exactly one error
\* Response, and call and batch_call issue exactly one HTTP POST each.
C18_ExactlyOnce ==
    /\ \A c \in DOMAIN conn :
          (Done(c) /\ conn[c].body # Malformed) =>
              /\ Len(conn[c].calls) = Cardinality(WellFormedItems(c))
              /\ OneErrorResponsePerFailure(c)
    /\ client.pc \in {"done", "batch_done"} => client.posts = 1

\* C18, amended: nothing is retried.  Every Request is handed to handle at
\* most once, in order, and exactly once when the body it arrived in decodes
\* as a whole; a body that does not decode causes no invocation; a failed
\* invocation produces exactly one error Response for its Request.  call and
\* batch_call issue at most one HTTP POST each: exactly one when the request
\* serializes, none when it does not.
C18_NothingRetried ==
    /\ \A c \in DOMAIN conn :
          /\ Len(conn[c].calls) + Cardinality(conn[c].cur) <= Len(conn[c].reqs)
          /\ \A i \in 1..Len(conn[c].calls) :
                /\ conn[c].calls[i].method = conn[c].reqs[i].method
                /\ conn[c].calls[i].params = conn[c].reqs[i].params
          /\ Done(c) =>
                IF DecodesOne(c) \/ DecodesBatch(c)
                THEN /\ Len(conn[c].calls) = Cardinality(WellFormedItems(c))
                     /\ Len(conn[c].calls) =
                            (IF conn[c].body.t = "obj" THEN 1 ELSE Len(conn[c].body.a))
                     /\ OneErrorResponsePerFailure(c)
                ELSE conn[c].calls = << >> /\ conn[c].response = << >>
    /\ client.posts <= 1
    /\ client.pc \in {"done", "batch_done"} =>
          /\ client.posts = 1 <=> client.reply.got
          /\ client.posts = 0 =>
                client.ret.val \in {Err(internal_error("to_string")), GenericErr("to_string")}

\* A batch of two handled to its end with a failed invocation in it, beside a
\* call that made its one POST and got the reply.
C18_Witness ==
    /\ \E c \in DOMAIN conn :
          /\ Done(c)
          /\ DecodesBatch(c)
          /\ Len(conn[c].calls) = 2
          /\ \E i \in 1..2 : ~conn[c].calls[i].ret.ok
    /\ client.pc = "done"
    /\ client.posts = 1

\* C19: batch dispatch is all-or-nothing with respect to decoding: while a
\* handler call of an array body is outstanding or complete, every item of
\* the array decodes as a Request; and when some item does not decode, the
\* exchange ends with no handler call at all, also for the well-formed items
\* that precede it.
C19_BatchDecodeAllOrNothing ==
    \A c \in DOMAIN conn :
        (conn[c].body # Malformed /\ conn[c].body.t = "arr") =>
            LET bad == {i \in 1..Len(conn[c].body.a) :
                           ~DeRPCRequest(handler, conn[c].body.a[i]).ok}
            IN /\ (conn[c].calls # << >> \/ conn[c].cur # {}
                                         \/ conn[c].pc = "batch_await") => bad = {}
               /\ (Done(c) /\ bad # {}) =>
                     /\ conn[c].calls = << >>
                     /\ conn[c].response = << >>
                     /\ conn[c].out.kind = "error"

\* A batch of two ended without any handler call: its first item decodes,
\* its second does not.
C19_Witness ==
    \E c \in DOMAIN conn :
        /\ Done(c)
        /\ conn[c].body # Malformed
        /\ conn[c].body.t = "arr"
        /\ Len(conn[c].body.a) = 2
        /\ DeRPCRequest(handler, conn[c].body.a[1]).ok
        /\ ~DeRPCRequest(handler, conn[c].body.a[2]).ok
        /\ conn[c].calls = << >>

\* C20: the empty array body takes the batch path and succeeds: the handler
\* is never invoked and the exchange ends with a success-class response whose
\* body is the empty array.
C20_EmptyBatch ==
    \A c \in DOMAIN conn :
        conn[c].body = JArr(<< >>) =>
            /\ conn[c].pc \in {"body", "done"}
            /\ conn[c].calls = << >>
            /\ conn[c].cur = {}
            /\ Done(c) =>
                  /\ conn[c].out.kind = "response"
                  /\ conn[c].out.status >= 200 /\ conn[c].out.status < 300
                  /\ conn[c].out.body = JArr(<< >>)

\* The exchange of an empty array, ended.
C20_Witness ==
    \E c \in DOMAIN conn :
        /\ Done(c)
        /\ conn[c].body = JArr(<< >>)
        /\ conn[c].reqs = << >>
        /\ conn[c].out.kind = "response"

====
